---- MODULE Spec2Model ----
(***************************************************************************)
(* Model of the storybook application: src/app.py (the current script)     *)
(* and src/Archive/app copy_best.py (the archived script).  A Streamlit    *)
(* script runs top to bottom on every user event; st.rerun() ends the run  *)
(* and starts another one, st.stop() and an uncaught exception end it.     *)
(*                                                                         *)
(* Strings are sequences of one-character strings, except that the five    *)
(* markers of the page grammar are single tokens.  sha1 is modelled as an  *)
(* injective tagging of its input (no collisions, also after the [:12]     *)
(* truncation of the image file names).                                    *)
(***************************************************************************)
EXTENDS Integers, Sequences, FiniteSets, TLC

VARIABLES
    app,         \* which script Streamlit runs: "app" (src/app.py) or "best" (Archive/app copy_best.py)
    pc,          \* position of the script: "idle", "rerun", "sidebar", "generate", "render"
    button,      \* the button whose click started this run: "none", "generate", "prev", "next"
    question,    \* st.text_input value
    age,         \* st.selectbox value
    tone,        \* st.selectbox value
    choice,      \* index of the sidebar selectbox (0 is the dash entry)
    options,     \* titles the sidebar selectbox was last built with
    library,     \* the script global `library` of the current run
    libFile,     \* the list in library/books.json
    libCorrupt,  \* books.json is not readable as JSON
    imgFiles,    \* generated_images/: file name -> "missing", "zero" or "ok"
    pages,       \* st.session_state.pages
    page_index,  \* st.session_state.page_index
    outcome,     \* how the Generate handler of the last run ended
    textCalls,   \* text-generation requests issued by the last Generate handler
    calls,       \* generate_image calls of the last handler, in order
    cached,      \* descriptions whose image a returned call left on disk, untouched since
    pruned,      \* records the last load_library discarded
    saved,       \* books Generate has saved, their image files and the library file left alone since
    hadBook,     \* Generate was pressed for inputs that have a book in saved
    shape,       \* parser alone: the blocks the raw response was built from
    raw,         \* parser alone: the raw response text
    blocks       \* parser alone: what re.findall returned for raw

vars == <<app, pc, button, question, age, tone, choice, options, library,
          libFile, libCorrupt, imgFiles, pages, page_index, outcome, textCalls, calls,
          cached, pruned, saved, hadBook, shape, raw, blocks>>

-----------------------------------------------------------------------------
(* Bounds *)

NumInputs == 3        \* inputs the user may enter (a prefix of InputPool)
NumResponses == 4     \* responses the text service may give (a prefix of ResponsePool)
MaxBooks == 2         \* Generate is not pressed once the file holds more books than this
MaxBlocks == 3        \* parser alone: blocks per raw response

-----------------------------------------------------------------------------
(* Strings *)

WS == " "

Min(a, b) == IF a < b THEN a ELSE b

\* s[:n]
Prefix(s, n) == SubSeq(s, 1, Min(n, Len(s)))

RECURSIVE LStrip(_)
LStrip(s) == IF s # <<>> /\ Head(s) = WS THEN LStrip(Tail(s)) ELSE s

RECURSIVE RStrip(_)
RStrip(s) ==
    IF s # <<>> /\ s[Len(s)] = WS THEN RStrip(SubSeq(s, 1, Len(s) - 1)) ELSE s

\* str.strip()
Strip(s) == LStrip(RStrip(s))

\* hashlib.sha1(...).hexdigest(): an injective digest
Sha1(s) == <<"sha1:">> \o s

\* str(age) inside the f-string
AgeStr(a) == <<"0", "1", "2", "3", "4", "5", "6", "7", "8", "9", "10">>[a + 1]

ToneList == <<"Gentle & soothing", "Funny", "Curious explorer", "Simple & direct">>

\* (question, age, tone) as the user may set the three widgets
InputPool ==
    << <<<<"w">>, 3, ToneList[1]>>,
       <<<<"W">>, 3, ToneList[1]>>,
       <<<<"w">>, 4, ToneList[1]>>,
       <<<<>>, 3, ToneList[1]>>,
       <<<<WS, "w">>, 3, ToneList[1]>>,
       <<<<"w">>, 3, ToneList[2]>>,
       <<<<"w", WS, WS, "w">>, 10, ToneList[4]>> >>

Inputs == {InputPool[i] : i \in 1..NumInputs}

-----------------------------------------------------------------------------
(* The page grammar and re.findall *)

\* re.IGNORECASE on the markers
Fold(t) ==
    CASE t = "<page>"   -> "<PAGE>"
      [] t = "<text>"   -> "<TEXT>"
      [] t = "</text>"  -> "</TEXT>"
      [] t = "<image>"  -> "<IMAGE>"
      [] t = "</image>" -> "</IMAGE>"
      [] OTHER          -> t

\* s[i] folded, or "" past the end
At(s, i) == IF i >= 1 /\ i <= Len(s) THEN Fold(s[i]) ELSE ""

\* \s* from position i: the first position that does not hold whitespace
RECURSIVE SkipWs(_, _)
SkipWs(s, i) == IF i <= Len(s) /\ s[i] = WS THEN SkipWs(s, i + 1) ELSE i

\* is there a closing </IMAGE> at or after position i
HasClose(s, i) == \E m \in i..Len(s) : At(s, m) = "</IMAGE>"

FirstClose(s, i) == CHOOSE m \in i..Len(s) :
    /\ At(s, m) = "</IMAGE>"
    /\ \A n \in i..(m - 1) : At(s, n) # "</IMAGE>"

\* can </TEXT>\s*<IMAGE>(.*?)</IMAGE> match with </TEXT> at position k
TextEndsAt(s, k) ==
    /\ At(s, k) = "</TEXT>"
    /\ At(s, SkipWs(s, k + 1)) = "<IMAGE>"
    /\ HasClose(s, SkipWs(s, k + 1) + 1)

\* does <PAGE>\s*<TEXT>(.*?)</TEXT>\s*<IMAGE>(.*?)</IMAGE> match at position i
MatchesAt(s, i) ==
    /\ At(s, i) = "<PAGE>"
    /\ At(s, SkipWs(s, i + 1)) = "<TEXT>"
    /\ \E k \in (SkipWs(s, i + 1) + 1)..Len(s) : TextEndsAt(s, k)

\* the match at position i: the two groups and the position of its last token
MatchAt(s, i) ==
    LET t == SkipWs(s, i + 1)
        k == CHOOSE k \in (t + 1)..Len(s) :
                 /\ TextEndsAt(s, k)
                 /\ \A j \in (t + 1)..(k - 1) : ~TextEndsAt(s, j)
        g == SkipWs(s, k + 1)
        m == FirstClose(s, g + 1)
    IN  [text |-> SubSeq(s, t + 1, k - 1), image |-> SubSeq(s, g + 1, m - 1),
         last |-> m]

\* re.findall(pattern, s, re.DOTALL | re.IGNORECASE): non-overlapping matches,
\* left to right, each as the pair of its groups
RECURSIVE FindAllFrom(_, _)
FindAllFrom(s, i) ==
    IF i > Len(s) THEN <<>>
    ELSE IF MatchesAt(s, i)
         THEN LET m == MatchAt(s, i)
              IN  <<[text |-> m.text, image |-> m.image]>> \o FindAllFrom(s, m.last + 1)
         ELSE FindAllFrom(s, i + 1)

FindAll(s) == FindAllFrom(s, 1)

-----------------------------------------------------------------------------
(* Raw responses, built from blocks *)

BlockKinds == {"W1", "W2", "Empty", "NoImage", "NoClose", "Extra"}

WellFormedKinds == {"W1", "W2"}

MalformedKinds == {"NoImage", "NoClose", "Extra"}

\* the text of one block of a raw response
BlockRaw(kind) ==
    CASE kind = "W1" ->
           <<"<PAGE>", "<TEXT>", "a", "</TEXT>", "<IMAGE>", "x", "</IMAGE>">>
      [] kind = "W2" ->
           <<"<page>", WS, "<text>", WS, "b", WS, "</text>", WS,
             "<image>", WS, "y", WS, "</image>", WS>>
      [] kind = "Empty" ->
           <<"<PAGE>", "<TEXT>", WS, "</TEXT>", "<IMAGE>", "x", "</IMAGE>">>
      [] kind = "NoImage" ->
           <<"<PAGE>", "<TEXT>", "m", "</TEXT>", WS, "z", "</IMAGE>">>
      [] kind = "NoClose" ->
           <<"<PAGE>", "<TEXT>", "m", "</TEXT>", "<IMAGE>", "z">>
      [] kind = "Extra" ->
           <<"<PAGE>", "<TEXT>", "m", "</TEXT>", "<IMAGE>", "z", "</IMAGE>",
             "<IMAGE>", "e", "</IMAGE>">>

\* the (text, description) a well-formed block carries
BlockText(kind) ==
    CASE kind = "W1" -> <<"a">> [] kind = "W2" -> <<WS, "b", WS>> [] OTHER -> <<WS>>

BlockImage(kind) ==
    CASE kind = "W2" -> <<WS, "y", WS>> [] OTHER -> <<"x">>

RECURSIVE RawOf(_)
RawOf(kinds) ==
    IF kinds = <<>> THEN <<>> ELSE BlockRaw(Head(kinds)) \o RawOf(Tail(kinds))

RECURSIVE SeqsUpTo(_, _)
SeqsUpTo(S, n) ==
    IF n = 0 THEN {<<>>}
    ELSE LET shorter == SeqsUpTo(S, n - 1)
         IN  shorter \cup {Append(q, x) : q \in shorter, x \in S}

\* parser alone: every response of at most MaxBlocks blocks
Shapes == SeqsUpTo(BlockKinds, MaxBlocks)

\* what the text service may answer in the application
ResponsePool ==
    << <<>>, <<"W1", "W2", "W1">>, <<"Empty">>, <<"W1">>, <<"W1", "W2">>,
       <<"W2">>, <<"NoClose", "W1">> >>

Responses == {RawOf(ResponsePool[i]) : i \in 1..NumResponses}

\* the descriptions generate_image can be called with
Descs == UNION {{Strip(FindAll(r)[i].image) : i \in 1..Len(FindAll(r))} : r \in Responses}

-----------------------------------------------------------------------------
(* Files and records *)

NoPath == <<>>            \* None
Raise == <<"raise">>      \* the call raised

\* hashlib.sha1(prompt.encode()).hexdigest()[:12] + ".png", under IMAGE_DIR
ImagePath(prompt) == <<"generated_images/">> \o Sha1(prompt) \o <<".png">>

ImageFiles == {ImagePath(d) : d \in Descs}

book_key(q, a, t) == Sha1(q \o <<"|", AgeStr(a), "|", t>>)

\* Path(p["image_path"]).exists()
Exists(files, path) == path \in DOMAIN files /\ files[path] # "missing"

is_valid_book(book, files) ==
    /\ book.pages # <<>>
    /\ \A i \in 1..Len(book.pages) :
          /\ book.pages[i].text # <<>>
          /\ book.pages[i].image_path # <<>>
          /\ Exists(files, book.pages[i].image_path)

\* load_library that does not write the cleaned list back
load_library_unsaved(file, corrupt, files) ==
    IF corrupt THEN [lib |-> <<>>, file |-> file, dropped |-> 0]
    ELSE LET valid(b) == is_valid_book(b, files)
             cleaned == SelectSeq(file, valid)
         IN  [lib |-> cleaned, file |-> file, dropped |-> Len(file) - Len(cleaned)]

\* load_library: the list returned and the file it leaves behind
load_library(file, corrupt, files) ==
    IF corrupt THEN [lib |-> <<>>, file |-> file, dropped |-> 0]
    ELSE LET valid(b) == is_valid_book(b, files)
             cleaned == SelectSeq(file, valid)
         IN  [lib |-> cleaned,
              file |-> IF Len(cleaned) # Len(file) THEN cleaned ELSE file,
              dropped |-> Len(file) - Len(cleaned)]

\* the first index of x in the sequence s, 0 when x is not in it
FirstIndex(s, x) ==
    IF \E i \in 1..Len(s) : s[i] = x
    THEN CHOOSE i \in 1..Len(s) : s[i] = x /\ \A j \in 1..(i - 1) : s[j] # x
    ELSE 0

Titles(lib) == [i \in 1..Len(lib) |-> lib[i].title]

TitleLen == 60

-----------------------------------------------------------------------------
(* generate_image *)

\* generate_image that catches the failure and returns None
generate_image_swallow(prompt, files, fails) ==
    LET path == ImagePath(prompt)
    IN  IF files[path] = "ok"
        THEN [files |-> files, ret |-> path, requested |-> FALSE]
        ELSE IF fails
             THEN [files |-> files, ret |-> NoPath, requested |-> TRUE]
             ELSE [files |-> [files EXCEPT ![path] = "ok"], ret |-> path,
                   requested |-> TRUE]

\* generate_image that does not look at the cache
generate_image_uncached(prompt, files, fails) ==
    LET path == ImagePath(prompt)
    IN  IF fails
        THEN [files |-> files, ret |-> Raise, requested |-> TRUE]
        ELSE [files |-> [files EXCEPT ![path] = "ok"], ret |-> path,
              requested |-> TRUE]

\* src/app.py: the files it leaves, what it returns, whether it asked the
\* image service; fails says the service call or the decode raises
generate_image(prompt, files, fails) ==
    LET path == ImagePath(prompt)
    IN  IF files[path] = "ok"
        THEN [files |-> files, ret |-> path, requested |-> FALSE]
        ELSE IF fails
             THEN [files |-> files, ret |-> Raise, requested |-> TRUE]
             ELSE [files |-> [files EXCEPT ![path] = "ok"], ret |-> path,
                   requested |-> TRUE]

\* src/Archive/app copy_best.py: any existing file is a hit, a failure is
\* caught and None returned
best_generate_image(prompt, files, fails) ==
    LET path == ImagePath(prompt)
    IN  IF files[path] # "missing"
        THEN [files |-> files, ret |-> path, requested |-> FALSE]
        ELSE IF fails
             THEN [files |-> files, ret |-> NoPath, requested |-> TRUE]
             ELSE [files |-> [files EXCEPT ![path] = "ok"], ret |-> path,
                   requested |-> TRUE]

\* the entry of the call log for one call
CallEntry(prompt, files, cch, r) ==
    [desc |-> prompt, before |-> files[ImagePath(prompt)], first |-> cch[prompt],
     requested |-> r.requested, ret |-> r.ret,
     after |-> r.files[ImagePath(prompt)]]

\* a call that returned a path whose file is on disk is remembered
Remember(cch, prompt, r) ==
    IF r.ret \in {Raise, NoPath} \/ cch[prompt] # NoPath THEN cch
    ELSE [cch EXCEPT ![prompt] = r.ret]

\* the page loop of src/app.py: for text, img_desc in blocks: pages.append(...)
\* failAt is the page whose image request fails (0: none fails)
RECURSIVE PageLoop(_, _, _, _, _, _, _)
PageLoop(bs, i, failAt, files, cch, log, pgs) ==
    IF i > Len(bs)
    THEN [files |-> files, cached |-> cch, calls |-> log, pages |-> pgs, raised |-> FALSE]
    ELSE LET d == Strip(bs[i].image)
             r == generate_image(d, files, i = failAt)
             log2 == Append(log, CallEntry(d, files, cch, r))
         IN  IF r.ret = Raise
             THEN [files |-> r.files, cached |-> cch, calls |-> log2, pages |-> pgs,
                   raised |-> TRUE]
             ELSE PageLoop(bs, i + 1, failAt, r.files, Remember(cch, d, r), log2,
                           Append(pgs, [text |-> Strip(bs[i].text), image_path |-> r.ret]))

\* the page loop of the archived script: no image is requested here
BestPages(bs) ==
    [i \in 1..Len(bs) |-> [text |-> Strip(bs[i].text), illustration |-> Strip(bs[i].image)]]

-----------------------------------------------------------------------------
(* The state after construction *)

Init ==
    /\ app \in {"app", "best"}
    /\ pc = "idle"
    /\ button = "none"
    /\ question = <<>>
    /\ age = 3
    /\ tone = ToneList[1]
    /\ choice = 0
    /\ options = <<>>
    /\ library = <<>>
    /\ libFile = <<>>
    /\ libCorrupt = FALSE
    /\ imgFiles = [f \in ImageFiles |-> "missing"]
    /\ pages = <<>>
    /\ page_index = 0
    /\ outcome = "none"
    /\ textCalls = 0
    /\ calls = <<>>
    /\ cached = [d \in Descs |-> NoPath]
    /\ pruned = 0
    /\ saved = {}
    /\ hadBook = FALSE
    /\ shape = <<>>
    /\ raw = <<>>
    /\ blocks = <<>>

-----------------------------------------------------------------------------
(* A script run starts: the top of the script up to library = load_library() *)

StartRun(btn) ==
    /\ button' = btn
    /\ hadBook' = /\ btn = "generate"
                  /\ \E b \in saved : b.key = book_key(question, age, tone)
    /\ outcome' = "none"
    /\ textCalls' = 0
    /\ calls' = <<>>
    /\ IF app = "app"
       THEN LET l == load_library(libFile, libCorrupt, imgFiles)
            IN  /\ library' = l.lib
                /\ libFile' = l.file
                /\ libCorrupt' = libCorrupt
                /\ pruned' = l.dropped
                /\ pc' = "sidebar"
       ELSE /\ UNCHANGED <<library, libFile, libCorrupt, pruned>>
            /\ pc' = "generate"
    /\ UNCHANGED <<app, options, imgFiles, pages, page_index, cached, saved, shape, raw, blocks>>

\* the user edits the question, the age or the tone
EditInputs(q, a, t) ==
    /\ pc = "idle"
    /\ <<q, a, t>> # <<question, age, tone>>
    /\ question' = q /\ age' = a /\ tone' = t
    /\ UNCHANGED choice
    /\ StartRun("none")

\* the user picks entry i of the sidebar selectbox
SelectBook(i) ==
    /\ app = "app"
    /\ pc \in {"idle", "rerun"}
    /\ i # choice
    /\ choice' = i
    /\ UNCHANGED <<question, age, tone>>
    /\ StartRun("none")

PressGenerate ==
    /\ pc = "idle"
    /\ Len(libFile) <= MaxBooks
    /\ UNCHANGED <<question, age, tone, choice>>
    /\ StartRun("generate")

PressPrevious ==
    /\ pc = "idle"
    /\ pages # <<>>
    /\ UNCHANGED <<question, age, tone, choice>>
    /\ StartRun("prev")

PressNext ==
    /\ pc = "idle"
    /\ pages # <<>>
    /\ UNCHANGED <<question, age, tone, choice>>
    /\ StartRun("next")

\* the run st.rerun() asked for
AutoRerun ==
    /\ pc = "rerun"
    /\ UNCHANGED <<question, age, tone, choice>>
    /\ StartRun("none")

-----------------------------------------------------------------------------
(* src/app.py from the sidebar on *)

ServiceError == <<"error">>    \* the text service raises

\* the sidebar: a selectbox built with other options than last time is a new
\* widget and shows its first entry; a selected book is loaded and the run ends
\* next(b for b in library if b["title"] == choice): the first book that has
\* the title of the selected entry
ChosenBook(lib, c) == FirstIndex(Titles(lib), Titles(lib)[c])

Sidebar ==
    /\ app = "app"
    /\ pc = "sidebar"
    /\ LET titles == Titles(library)
           c == IF titles = options THEN choice ELSE 0
       IN  /\ options' = titles
           /\ choice' = c
           /\ IF c # 0
              THEN LET b == ChosenBook(library, c)
                   IN  /\ pages' = library[b].pages
                       /\ page_index' = 0
                       /\ pc' = "rerun"
              ELSE /\ pc' = "generate"
                   /\ UNCHANGED <<pages, page_index>>
    /\ UNCHANGED <<app, button, question, age, tone, library, libFile, libCorrupt, imgFiles,
                   outcome, textCalls, calls, cached, pruned, saved, hadBook, shape, raw, blocks>>

\* a lookup that never finds the book
FindExistingNever(lib, key) == 0

\* the existing-book lookup: the index in library of the book with this key, or 0
FindExisting(lib, key) == FirstIndex([i \in 1..Len(lib) |-> lib[i].key], key)

\* if st.button("Explain this question"): ...
Generate ==
    /\ app = "app"
    /\ pc = "generate"
    /\ UNCHANGED <<app, button, question, age, tone, choice, options, pruned,
                   hadBook, shape, raw, blocks>>
    /\ IF button # "generate"
       THEN /\ pc' = "render"
            /\ UNCHANGED <<library, libFile, libCorrupt, imgFiles, pages, page_index,
                           outcome, textCalls, calls, cached, saved>>
       ELSE IF question = <<>>
       THEN /\ pc' = "render"
            /\ outcome' = "warning"
            /\ UNCHANGED <<library, libFile, libCorrupt, imgFiles, pages, page_index,
                           textCalls, calls, cached, saved>>
       ELSE LET key == book_key(question, age, tone)
                existing == FindExisting(library, key)
            IN  IF existing # 0
                THEN /\ pages' = library[existing].pages
                     /\ page_index' = 0
                     /\ pc' = "rerun"
                     /\ outcome' = "hit"
                     /\ UNCHANGED <<library, libFile, libCorrupt, imgFiles, textCalls,
                                    calls, cached, saved>>
                ELSE /\ textCalls' = 1
                     /\ \E response \in Responses \cup {ServiceError} :
                          IF response = ServiceError
                          THEN /\ outcome' = "text_error"
                               /\ pc' = "idle"
                               /\ UNCHANGED <<library, libFile, libCorrupt, imgFiles,
                                              pages, page_index, calls, cached, saved>>
                          ELSE LET bs == FindAll(response)
                               IN  IF bs = <<>>
                                   THEN /\ outcome' = "no_blocks"
                                        /\ pc' = "idle"
                                        /\ UNCHANGED <<library, libFile, libCorrupt,
                                                       imgFiles, pages, page_index,
                                                       calls, cached, saved>>
                                   ELSE \E failAt \in 0..Len(bs) :
                                        LET l == PageLoop(bs, 1, failAt, imgFiles, cached,
                                                          <<>>, <<>>)
                                            book == [key |-> key,
                                                     title |-> Prefix(question, TitleLen),
                                                     pages |-> l.pages]
                                        IN  /\ imgFiles' = l.files
                                            /\ cached' = l.cached
                                            /\ calls' = l.calls
                                            /\ IF l.raised
                                               THEN /\ outcome' = "image_error"
                                                    /\ pc' = "idle"
                                                    /\ UNCHANGED <<library, libFile,
                                                                   libCorrupt, pages,
                                                                   page_index, saved>>
                                               ELSE /\ library' = Append(library, book)
                                                    /\ libFile' = library'
                                                    /\ libCorrupt' = FALSE
                                                    /\ saved' = {b \in saved : b.key # key}
                                                                   \cup {book}
                                                    /\ pages' = book.pages
                                                    /\ page_index' = 0
                                                    /\ pc' = "rerun"
                                                    /\ outcome' = "saved"

\* st.button("Previous", disabled=page_index == 0)
PrevClicked(btn, idx) == btn = "prev" /\ ~(idx = 0)

\* a Next button that is never disabled
NextClickedAlways(btn, idx, n) == btn = "next"

\* st.button("Next", disabled=page_index == len(pages) - 1)
NextClicked(btn, idx, n) == btn = "next" /\ ~(idx = n - 1)

\* the Previous and Next buttons, the same in both scripts
TurnPage ==
    IF pages # <<>> /\ PrevClicked(button, page_index)
    THEN page_index' = page_index - 1 /\ pc' = "rerun"
    ELSE IF pages # <<>> /\ NextClicked(button, page_index, Len(pages))
    THEN page_index' = page_index + 1 /\ pc' = "rerun"
    ELSE page_index' = page_index /\ pc' = "idle"

\* if st.session_state.pages: show the page, the buttons and the download
Render ==
    /\ app = "app"
    /\ pc = "render"
    /\ TurnPage
    /\ UNCHANGED <<app, button, question, age, tone, choice, options, library, libFile, libCorrupt,
                   imgFiles, pages, outcome, textCalls, calls, cached, pruned, saved, hadBook,
                   shape, raw, blocks>>

-----------------------------------------------------------------------------
(* src/Archive/app copy_best.py *)

BestGenerate ==
    /\ app = "best"
    /\ pc = "generate"
    /\ UNCHANGED <<app, button, question, age, tone, choice, options, library, libFile, libCorrupt,
                   imgFiles, calls, cached, pruned, saved, hadBook, shape, raw, blocks>>
    /\ IF button # "generate"
       THEN /\ pc' = "render"
            /\ UNCHANGED <<pages, page_index, outcome, textCalls>>
       ELSE IF question = <<>>
       THEN /\ pc' = "render"
            /\ outcome' = "warning"
            /\ UNCHANGED <<pages, page_index, textCalls>>
       ELSE /\ page_index' = 0
            /\ textCalls' = 1
            /\ \E response \in Responses \cup {ServiceError} :
                 IF response = ServiceError
                 THEN /\ outcome' = "text_error"
                      /\ pc' = "render"
                      /\ UNCHANGED pages
                 ELSE LET bs == FindAll(response)
                      IN  IF bs = <<>>
                          THEN /\ outcome' = "no_blocks"
                               /\ pc' = "render"
                               /\ UNCHANGED pages
                          ELSE /\ pages' = BestPages(bs)
                               /\ pc' = "rerun"
                               /\ outcome' = "shown"

BestRender ==
    /\ app = "best"
    /\ pc = "render"
    /\ IF pages = <<>>
       THEN UNCHANGED <<imgFiles, calls, cached>>
       ELSE \E fails \in BOOLEAN :
            LET d == pages[page_index + 1].illustration
                r == best_generate_image(d, imgFiles, fails)
            IN  /\ imgFiles' = r.files
                /\ calls' = <<CallEntry(d, imgFiles, cached, r)>>
                /\ cached' = Remember(cached, d, r)
    /\ TurnPage
    /\ UNCHANGED <<app, button, question, age, tone, choice, options, library, libFile, libCorrupt,
                   pages, outcome, textCalls, pruned, saved, hadBook, shape, raw, blocks>>

-----------------------------------------------------------------------------
(* What happens to the files from outside the script *)

Forget(cch, f) == [d \in DOMAIN cch |-> IF ImagePath(d) = f THEN NoPath ELSE cch[d]]

RemoveImageFile(f) ==
    /\ pc = "idle"
    /\ imgFiles[f] # "missing"
    /\ imgFiles' = [imgFiles EXCEPT ![f] = "missing"]
    /\ cached' = Forget(cached, f)
    /\ saved' = {b \in saved : \A j \in 1..Len(b.pages) : b.pages[j].image_path # f}
    /\ UNCHANGED <<app, pc, button, question, age, tone, choice, options, library,
                   libFile, libCorrupt, pages, page_index, outcome, textCalls, calls, pruned,
                   hadBook, shape, raw, blocks>>

\* a write that a crash cut short leaves a zero-byte file
TruncateImageFile(f) ==
    /\ pc = "idle"
    /\ imgFiles[f] = "ok"
    /\ imgFiles' = [imgFiles EXCEPT ![f] = "zero"]
    /\ cached' = Forget(cached, f)
    /\ UNCHANGED <<app, pc, button, question, age, tone, choice, options, library,
                   libFile, libCorrupt, pages, page_index, outcome, textCalls, calls, pruned, saved,
                   hadBook, shape, raw, blocks>>

CorruptLibraryFile ==
    /\ app = "app"
    /\ pc = "idle"
    /\ ~libCorrupt
    /\ libCorrupt' = TRUE
    /\ libFile' = <<>>
    /\ saved' = {}
    /\ UNCHANGED <<app, pc, button, question, age, tone, choice, options, library,
                   imgFiles, pages, page_index, outcome, textCalls, calls, cached,
                   pruned, hadBook, shape, raw, blocks>>

-----------------------------------------------------------------------------
(* The specification of the two scripts *)

Next ==
    \/ \E in \in Inputs : EditInputs(in[1], in[2], in[3])
    \/ \E i \in 0..Len(options) : SelectBook(i)
    \/ PressGenerate
    \/ PressPrevious
    \/ PressNext
    \/ AutoRerun
    \/ Sidebar
    \/ Generate
    \/ Render
    \/ BestGenerate
    \/ BestRender
    \/ \E f \in ImageFiles : RemoveImageFile(f)
    \/ \E f \in ImageFiles : TruncateImageFile(f)
    \/ CorruptLibraryFile

Spec == Init /\ [][Next]_vars

\* Streamlit runs a started script to its end and runs every rerun asked for;
\* nothing makes the user act
SpecFair ==
    /\ Spec
    /\ WF_vars(AutoRerun)
    /\ WF_vars(Sidebar)
    /\ WF_vars(Generate)
    /\ WF_vars(Render)
    /\ WF_vars(BestGenerate)
    /\ WF_vars(BestRender)

-----------------------------------------------------------------------------
(* The parser on its own: a raw response is drawn and parsed *)

InitParse ==
    /\ app = "app"
    /\ pc = "parse"
    /\ button = "none"
    /\ question = <<>>
    /\ age = 3
    /\ tone = ToneList[1]
    /\ choice = 0
    /\ options = <<>>
    /\ library = <<>>
    /\ libFile = <<>>
    /\ libCorrupt = FALSE
    /\ imgFiles = [f \in ImageFiles |-> "missing"]
    /\ pages = <<>>
    /\ page_index = 0
    /\ outcome = "none"
    /\ textCalls = 0
    /\ calls = <<>>
    /\ cached = [d \in Descs |-> NoPath]
    /\ pruned = 0
    /\ saved = {}
    /\ hadBook = FALSE
    /\ shape \in Shapes
    /\ raw = RawOf(shape)
    /\ blocks = <<>>

\* blocks = re.findall(...); if not blocks: the generation has failed
Parse ==
    /\ pc = "parse"
    /\ blocks' = FindAll(raw)
    /\ outcome' = IF blocks' = <<>> THEN "no_blocks" ELSE "none"
    /\ pc' = "parsed"
    /\ UNCHANGED <<app, button, question, age, tone, choice, options, library, libFile, libCorrupt,
                   imgFiles, pages, page_index, textCalls, calls, cached, pruned, saved,
                   hadBook, shape, raw>>

NextParse == Parse

SpecParse == InitParse /\ [][NextParse]_vars

-----------------------------------------------------------------------------
(* Properties *)

\* the Generate handler of src/app.py has run in this run
Generated == app = "app" /\ button = "generate" /\ pc \in {"render", "rerun", "idle"}

\* a step of the Generate handler of either script that ends in a failure
GenerateFails ==
    pc = "generate" /\ outcome' \in {"text_error", "no_blocks", "image_error"}

\* C1: no partially-illustrated book is persisted by src/app.py: a Generate
\* whose image request or decode fails writes nothing to the library file and
\* leaves no book for its key there, a Generate that saves gives the book one
\* page per generate_image call, each with the path of an image on disk, and
\* every page of every book of the file carries the path of an image file.
NoPartialBook ==
    /\ [](app = "app" =>
            \A i \in 1..Len(libFile) : \A j \in 1..Len(libFile[i].pages) :
                libFile[i].pages[j].image_path \in ImageFiles)
    /\ [][(app = "app" /\ pc = "generate" /\ outcome' = "image_error") =>
            /\ libFile' = libFile
            /\ libCorrupt' = libCorrupt
            /\ \A i \in 1..Len(libFile') :
                  libFile'[i].key # book_key(question, age, tone)]_vars
    /\ [][(app = "app" /\ pc = "generate" /\ outcome' = "saved") =>
            LET b == libFile'[Len(libFile')]
            IN  /\ Len(b.pages) = Len(calls')
                /\ \A j \in 1..Len(b.pages) :
                      /\ b.pages[j].image_path = ImagePath(calls'[j].desc)
                      /\ b.pages[j].image_path \in ImageFiles
                      /\ imgFiles'[b.pages[j].image_path] = "ok"]_vars

\* C1 witness: the image request of the second page failed after the image of
\* the first page was requested and written
SecondImageFailed ==
    /\ app = "app"
    /\ outcome = "image_error"
    /\ Len(calls) = 2
    /\ calls[1].requested /\ calls[1].after = "ok"
    /\ calls[2].ret = Raise

\* C2 (as claimed): pressing Generate while the library file holds a book
\* saved for the same inputs, its images still on disk, loads that book and
\* issues neither a text request nor an image request.
RegenerateHitsLibrary ==
    (Generated /\ hadBook) => (outcome = "hit" /\ textCalls = 0 /\ calls = <<>>)


\* C3: generate_image of src/app.py never asks the image service for a
\* description an earlier call has returned for, and returns the path that
\* call returned; no call asks for a description whose file is cached; the
\* calls of one Generate ask at most once for each description.
ImageCallsIdempotent ==
    app = "app" =>
        /\ \A i \in 1..Len(calls) :
              /\ calls[i].first # NoPath =>
                    (~calls[i].requested /\ calls[i].ret = calls[i].first)
              /\ calls[i].before = "ok" => ~calls[i].requested
        /\ \A i, j \in 1..Len(calls) :
              (i < j /\ calls[i].desc = calls[j].desc) =>
                  ~(calls[i].requested /\ calls[j].requested)

\* C3 witness: one Generate called generate_image twice for one description,
\* the first call asked the service, the second returned the same path unasked
SecondCallHit ==
    /\ app = "app"
    /\ \E i, j \in 1..Len(calls) :
          /\ i < j
          /\ calls[i].desc = calls[j].desc
          /\ calls[i].requested
          /\ ~calls[j].requested
          /\ calls[j].ret = calls[i].ret
          /\ calls[j].first = calls[i].ret

\* the validity the claim C4 names: pages not empty, every image file on disk
HasPagesAndImages(b) ==
    /\ b.pages # <<>>
    /\ \A j \in 1..Len(b.pages) : imgFiles[b.pages[j].image_path] # "missing"

\* the validity load_library applies: also every page with text and a path
HasTextAndImages(b) ==
    /\ HasPagesAndImages(b)
    /\ \A j \in 1..Len(b.pages) :
          b.pages[j].text # <<>> /\ b.pages[j].image_path # <<>>

\* a step that runs load_library on a readable file
Loads == app = "app" /\ pc \in {"idle", "rerun"} /\ pc' = "sidebar" /\ ~libCorrupt

\* after a load that discarded a record, the file holds the list returned and
\* the next load returns it again and rewrites nothing
Healed ==
    pruned' > 0 =>
        /\ libFile' = library'
        /\ load_library(libFile', libCorrupt', imgFiles').lib = library'
        /\ load_library(libFile', libCorrupt', imgFiles').file = libFile'
        /\ load_library(libFile', libCorrupt', imgFiles').dropped = 0

\* C4 (as claimed): load_library returns exactly the records with pages whose
\* image files are all on disk, in their order, and rewrites the file when it
\* discarded a record so that the next load returns the same and rewrites
\* nothing.
LoadKeepsBooksWithImages ==
    [][Loads => (library' = SelectSeq(libFile, HasPagesAndImages) /\ Healed)]_vars

\* C4 (amended): load_library returns exactly the records with pages that all
\* have text, an image path and the image file on disk, in their order, and
\* rewrites the file when it discarded a record so that the next load returns
\* the same and rewrites nothing.
LoadKeepsValidBooks ==
    [][Loads => (/\ library' = SelectSeq(libFile, HasTextAndImages)
                 /\ pruned' = Len(libFile) - Len(library')
                 /\ (pruned' = 0 => libFile' = libFile)
                 /\ Healed)]_vars

\* C4 witness: a load kept one book and discarded another
LoadDiscardedOne == app = "app" /\ pc = "sidebar" /\ pruned = 1 /\ Len(library) = 1

\* C5: the library file of src/app.py never holds two books with one key, and
\* a Generate that finds its key in the library leaves the file as it is.
UniqueKeys ==
    /\ [](app = "app" =>
            \A i, j \in 1..Len(libFile) :
                libFile[i].key = libFile[j].key => i = j)
    /\ [][(app = "app" /\ pc = "generate" /\ outcome' = "hit") =>
            (libFile' = libFile /\ library' = library)]_vars

\* C5 witness: Generate found its key in a library of two books
HitAmongTwo == app = "app" /\ outcome = "hit" /\ Len(libFile) = 2

FailedGenerateChangesNothing ==
    [][GenerateFails => (/\ pages' = pages
                         /\ page_index' = page_index
                         /\ libFile' = libFile
                         /\ libCorrupt' = libCorrupt)]_vars

\* C8 (as claimed): in both scripts a generate_image call that finds the file
\* missing or zero bytes long asks the image service, and overwrites the file
\* when it returns a path.
ZeroByteIsMiss ==
    \A i \in 1..Len(calls) :
        calls[i].before \in {"missing", "zero"} =>
            /\ calls[i].requested
            /\ calls[i].ret \notin {Raise, NoPath} => calls[i].after = "ok"

\* str.lower()
Lower(q) == [i \in 1..Len(q) |-> IF q[i] = "W" THEN "w" ELSE q[i]]

\* runs of whitespace become one
RECURSIVE Squeeze(_)
Squeeze(q) ==
    IF Len(q) < 2 THEN q
    ELSE IF q[1] = WS /\ q[2] = WS THEN Squeeze(Tail(q))
    ELSE <<q[1]>> \o Squeeze(Tail(q))

\* the question with case and whitespace normalized
Normalized(q) == Squeeze(Strip(Lower(q)))

\* C9 (as claimed): a Generate for a question that differs only in case or
\* whitespace from the question of a book of the library, with the same age
\* and tone, hits that book.
NormalizedQuestionHits ==
    LET before == IF outcome = "saved" THEN SubSeq(library, 1, Len(library) - 1)
                  ELSE library
    IN  (Generated /\ question # <<>>
            /\ \E in \in Inputs :
                  /\ Normalized(in[1]) = Normalized(question)
                  /\ in[2] = age /\ in[3] = tone
                  /\ \E i \in 1..Len(before) :
                        before[i].key = book_key(in[1], age, tone))
        => outcome = "hit"

\* the blocks of the response that are well-formed, in order
RECURSIVE WellFormedOf(_)
WellFormedOf(kinds) ==
    IF kinds = <<>> THEN <<>>
    ELSE IF Head(kinds) \in WellFormedKinds
         THEN <<Head(kinds)>> \o WellFormedOf(Tail(kinds))
         ELSE WellFormedOf(Tail(kinds))

\* C10 (as claimed): for a response of N well-formed blocks and at most one
\* malformed block the parser returns the N well-formed blocks in order, each
\* with its non-empty trimmed text, and with N = 0 the generation has failed.
ParserYieldsWellFormed ==
    (/\ pc = "parsed"
     /\ \A i \in 1..Len(shape) : shape[i] \in WellFormedKinds \cup MalformedKinds
     /\ Cardinality({i \in 1..Len(shape) : shape[i] \in MalformedKinds}) <= 1)
    => LET wf == WellFormedOf(shape)
       IN  /\ Len(blocks) = Len(wf)
           /\ \A i \in 1..Len(wf) :
                 /\ Strip(blocks[i].text) = Strip(BlockText(wf[i]))
                 /\ Strip(blocks[i].text) # <<>>
                 /\ Strip(blocks[i].image) = Strip(BlockImage(wf[i]))
           /\ (wf = <<>> => outcome = "no_blocks")

\* the sidebar of src/app.py has loaded the book the user selected
Opened == app = "app" /\ pc = "rerun" /\ choice # 0

\* C11 (as claimed): once the sidebar has loaded the selected book, the reruns
\* end and a run reaches the render step with that book in the session.
OpenedBookIsShown ==
    Opened ~> (pc = "render" /\ pages # <<>>)

\* C12 (as claimed): when a run has loaded the library and builds the sidebar
\* from it, for every book of the library there is a sidebar selection that
\* loads that book's pages, also when two books have one title.
EveryBookSelectable ==
    (app = "app" /\ pc = "sidebar") =>
        \A j \in 1..Len(library) :
            \E c \in 1..Len(library) :
                library[ChosenBook(library, c)].pages = library[j].pages

\* C13 (as claimed): every book that Generate appends to the library satisfies
\* is_valid_book at the moment it is saved, whatever the parsed response.
SavedBookIsValid ==
    (app = "app" /\ pc = "rerun" /\ button = "generate" /\ outcome = "saved") =>
        is_valid_book(libFile[Len(libFile)], imgFiles)

====
